---- MODULE Spec2Model ----
(***************************************************************************)
(* A model of projectgen.py: the interactive project assistant that        *)
(* materialises a generated project plan on disk (build_project /          *)
(* _create_project), infers the technologies of an existing directory      *)
(* (_load_project_info) and applies the file-edit directives found in the  *)
(* collaborator's replies (chat_mode / _process_file_edits).               *)
(*                                                                         *)
(* Texts are sequences of one-character strings, indexed from 0 in the     *)
(* operators that mirror Python's str methods.  A fixed literal of the     *)
(* program that carries no structure (a prompt, the text of a status       *)
(* line) is a single glyph element.  Paths are sequences of segments, each *)
(* segment a text; the filesystem is a set of directories and a function   *)
(* from file paths to contents, both keyed by absolute canonical paths.    *)
(***************************************************************************)
EXTENDS Integers, Sequences, FiniteSets, TLC

(***************************************************************************)
(* Python str                                                              *)
(***************************************************************************)

Min(a, b) == IF a < b THEN a ELSE b

\* the least element of a non-empty set of integers, -1 for the empty set
Lowest(hits) == IF hits = {} THEN -1 ELSE CHOOSE i \in hits : \A j \in hits : i <= j

\* the greatest element of a non-empty set of integers
Highest(hits) == CHOOSE i \in hits : \A j \in hits : j <= i

\* s[i:j] with Python's clipping of the two indices (both >= 0 here)
Slice(s, i, j) ==
  IF Min(j, Len(s)) <= Min(i, Len(s)) THEN <<>>
  ELSE SubSeq(s, Min(i, Len(s)) + 1, Min(j, Len(s)))

\* sub occurs in s at 0-based index i
OccursAt(s, sub, i) ==
  /\ i >= 0
  /\ i + Len(sub) <= Len(s)
  /\ SubSeq(s, i + 1, i + Len(sub)) = sub

\* s.find(sub, start): the lowest index >= start where sub occurs, or -1
Find(s, sub, start) ==
  Lowest({i \in start..(Len(s) - Len(sub)) : OccursAt(s, sub, i)})

\* s cut to the span of the indices keep
Span(s, keep) == IF keep = {} THEN <<>> ELSE SubSeq(s, Lowest(keep), Highest(keep))

\* s.strip()
Strip(s) == Span(s, {i \in 1..Len(s) : s[i] \notin {" ", "\n", "\t"}})

RECURSIVE ReplaceFrom(_, _, _, _)
\* the rest of s.replace once the next occurrence of old is known to be at index at
ReplaceAt(s, old, new, from, at) ==
  IF at = -1 THEN Slice(s, from, Len(s))
  ELSE Slice(s, from, at) \o new \o ReplaceFrom(s, old, new, at + Len(old))

\* s[from:].replace(old, new)
ReplaceFrom(s, old, new, from) == ReplaceAt(s, old, new, from, Find(s, old, from))

\* s.replace(old, new): every non-overlapping occurrence, left to right
Replace(s, old, new) == IF old = <<>> THEN s ELSE ReplaceFrom(s, old, new, 0)

\* s.startswith(prefix)
StartsWith(s, prefix) == OccursAt(s, prefix, 0)

\* s.endswith(suffix)
EndsWith(s, suffix) == OccursAt(s, suffix, Len(s) - Len(suffix))

LowerChar(c) ==
  CASE c = "B" -> "b"
    [] c = "E" -> "e"
    [] c = "Y" -> "y"
    [] OTHER -> c

\* s.lower()
Lower(s) == [i \in 1..Len(s) |-> LowerChar(s[i])]

RECURSIVE SplitFrom(_, _, _)
\* the rest of s.split once the next separator is known to be at index at
SplitAt(s, sep, from, at) ==
  IF at = -1 THEN <<Slice(s, from, Len(s))>>
  ELSE <<Slice(s, from, at)>> \o SplitFrom(s, sep, at + Len(sep))

\* s[from:].split(sep)
SplitFrom(s, sep, from) == SplitAt(s, sep, from, Find(s, sep, from))

\* s.split(sep)
Split(s, sep) == SplitFrom(s, sep, 0)

RECURSIVE Join(_, _)
\* sep.join(parts)
Join(sep, parts) ==
  IF parts = <<>> THEN <<>>
  ELSE IF Len(parts) = 1 THEN parts[1]
  ELSE parts[1] \o sep \o Join(sep, Tail(parts))

\* x in seq
InSeq(x, seq) == \E i \in 1..Len(seq) : seq[i] = x

(***************************************************************************)
(* pathlib and the filesystem.  A path is a sequence of segments below "/"; *)
(* pathlib keeps ".." segments, the operating system resolves them while   *)
(* it walks the path.  There are no symbolic links.                        *)
(***************************************************************************)

DotDot == <<".", ".">>

RECURSIVE Segments(_)
\* the segments pathlib keeps of the pieces between slashes: not "" and not "."
Segments(pieces) ==
  IF pieces = <<>> THEN <<>>
  ELSE (IF Head(pieces) = <<>> \/ Head(pieces) = <<".">> THEN <<>> ELSE <<Head(pieces)>>)
         \o Segments(Tail(pieces))

\* base / text: an absolute text replaces base
PathJoin(base, text) ==
  (IF StartsWith(text, <<"/">>) THEN <<>> ELSE base) \o Segments(Split(text, <<"/">>))

\* path.parent: lexical, the last segment dropped whatever it is
Parent(path) == IF path = <<>> THEN <<>> ELSE SubSeq(path, 1, Len(path) - 1)

RECURSIVE FoldDots(_, _)
\* rest appended to cur with every ".." folded into its parent
FoldDots(cur, rest) ==
  IF rest = <<>> THEN cur
  ELSE FoldDots(IF Head(rest) = DotDot THEN Parent(cur) ELSE Append(cur, Head(rest)),
                Tail(rest))

RECURSIVE Walk(_, _, _, _)
\* the operating system's resolution of the segments rest from cur: where it ended
\* (path), what is there (kind) and how many segments it could not enter (left)
Walk(ds, fl, cur, rest) ==
  IF cur \notin ds
    THEN [kind |-> IF cur \in DOMAIN fl THEN "file" ELSE "absent", path |-> cur,
          left |-> Len(rest)]
  ELSE IF rest = <<>> THEN [kind |-> "dir", path |-> cur, left |-> 0]
  ELSE Walk(ds, fl, IF Head(rest) = DotDot THEN Parent(cur) ELSE Append(cur, Head(rest)),
            Tail(rest))

\* the errno of a walk that stopped short: through a file, or through nothing
Lookup(w) ==
  IF w.left = 0 THEN w
  ELSE [kind |-> IF w.kind = "file" THEN "ENOTDIR" ELSE "ENOENT", path |-> w.path,
        left |-> w.left]

\* stat(path): "dir", "file", "absent", or the errno of a failed lookup
Stat(ds, fl, path) == Lookup(Walk(ds, fl, <<>>, path))

\* path.exists()
Exists(ds, fl, path) == Stat(ds, fl, path).kind \in {"dir", "file"}

\* path.is_dir()
IsDir(ds, fl, path) == Stat(ds, fl, path).kind = "dir"

\* os.mkdir of the entry last in the directory looked up as up
MkdirIn(ds, fl, up, last) ==
  IF up.kind \in {"ENOTDIR", "file"} THEN [err |-> "ENOTDIR", dirs |-> ds]
  ELSE IF up.kind \in {"ENOENT", "absent"} THEN [err |-> "ENOENT", dirs |-> ds]
  ELSE IF last = DotDot \/ Append(up.path, last) \in ds \/ Append(up.path, last) \in DOMAIN fl
    THEN [err |-> "EEXIST", dirs |-> ds]
  ELSE [err |-> "ok", dirs |-> ds \cup {Append(up.path, last)}]

\* os.mkdir(path): the errno, or "ok" and the directory made
OsMkdir(ds, fl, path) ==
  IF path = <<>> THEN [err |-> "EEXIST", dirs |-> ds]
  ELSE MkdirIn(ds, fl, Stat(ds, fl, Parent(path)), path[Len(path)])

RECURSIVE PathMkdir(_, _, _, _)
\* Path.mkdir once its parent has been made with result up: the second os.mkdir
MkdirAfterParent(fl, path, up) ==
  IF up.err # "ok" THEN up ELSE PathMkdir(up.dirs, fl, path, FALSE)

\* Path.mkdir after its os.mkdir gave r: FileNotFoundError makes the parents first,
\* any other OSError is swallowed when the path is a directory (exist_ok)
MkdirHandled(ds, fl, path, parents, r) ==
  IF r.err = "ok" THEN r
  ELSE IF r.err = "ENOENT"
    THEN IF ~parents \/ Parent(path) = path THEN r
         ELSE MkdirAfterParent(fl, path, PathMkdir(ds, fl, Parent(path), TRUE))
  ELSE IF IsDir(ds, fl, path) THEN [err |-> "ok", dirs |-> ds]
  ELSE r

\* path.mkdir(exist_ok=True, parents=parents)
PathMkdir(ds, fl, path, parents) ==
  MkdirHandled(ds, fl, path, parents, OsMkdir(ds, fl, path))

\* path.mkdir(exist_ok=True, parents=True)
MkdirParents(ds, fl, path) == PathMkdir(ds, fl, path, TRUE)

\* fl with the file at path holding content
Put(fl, path, content) ==
  [q \in DOMAIN fl \cup {path} |-> IF q = path THEN content ELSE fl[q]]

\* open(.., "w") of the entry last in the directory looked up as up, and the writes
WriteIn(ds, fl, up, last, content) ==
  IF up.kind \in {"ENOTDIR", "file"} THEN [err |-> "ENOTDIR", dirs |-> ds, files |-> fl]
  ELSE IF up.kind \in {"ENOENT", "absent"} THEN [err |-> "ENOENT", dirs |-> ds, files |-> fl]
  ELSE IF last = DotDot \/ Append(up.path, last) \in ds
    THEN [err |-> "EISDIR", dirs |-> ds, files |-> fl]
  ELSE [err |-> "ok", dirs |-> ds, files |-> Put(fl, Append(up.path, last), content)]

\* with open(path, "w") as f: f.write(content)
WriteFile(ds, fl, path, content) ==
  IF path = <<>> THEN [err |-> "EISDIR", dirs |-> ds, files |-> fl]
  ELSE WriteIn(ds, fl, Stat(ds, fl, Parent(path)), path[Len(path)], content)

\* the write that follows a mkdir with result m, unless the mkdir raised
WriteAfter(fl, path, content, m) ==
  IF m.err # "ok" THEN [err |-> m.err, dirs |-> m.dirs, files |-> fl]
  ELSE WriteFile(m.dirs, fl, path, content)

\* path.parent.mkdir(exist_ok=True, parents=True), then the file written
MkdirAndWrite(ds, fl, path, content) ==
  WriteAfter(fl, path, content, MkdirParents(ds, fl, Parent(path)))

(***************************************************************************)
(* Literals of the program                                                 *)
(***************************************************************************)

\* "FILE_EDIT: ", the marker that opens a directive (line 461)
FILE_EDIT == <<"F", "I", "L", "E", "_", "E", "D", "I", "T", ":", " ">>

\* "END_FILE_EDIT", the marker that closes a directive (line 471)
END_FILE_EDIT == <<"E", "N", "D", "_", "F", "I", "L", "E", "_", "E", "D", "I", "T">>

\* response[file_edit_start + 11 : ...]: where the path starts (line 468)
PathOffset == 11

\* response[... : file_edit_end + 14]: where the replaced text ends (line 491)
SpanTail == 14

README_MD == <<"R", "E", "A", "D", "M", "E", ".", "m", "d">>

REQUIREMENTS_TXT == <<"r", "e", "q", "u", "i", "r", "e", "m", "e", "n", "t", "s", ".", "t", "x", "t">>

PACKAGE_JSON == <<"p", "a", "c", "k", "a", "g", "e", ".", "j", "s", "o", "n">>

DOT_GIT == <<".", "g", "i", "t">>

PYTHON == <<"p", "y", "t", "h", "o", "n">>

JAVASCRIPT == <<"j", "a", "v", "a", "s", "c", "r", "i", "p", "t">>

NODE == <<"n", "o", "d", "e">>

CMD_EXIT == <<"@", "e", "x", "i", "t">>

CMD_BUILD == <<"@", "b", "u", "i", "l", "d", " ">>

CMD_CHAT == <<"@", "c", "h", "a", "t", " ">>

CMD_HELP == <<"@", "h", "e", "l", "p">>

CMD_FILES == <<"@", "f", "i", "l", "e", "s">>

CMD_READ == <<"@", "r", "e", "a", "d", " ">>

\* self.projects_dir, made by the constructor (lines 25-26)
ProjectsDir == <<<<"p">>>>

\* None, for current_project_path (line 29)
None == <<<<"None">>>>

\* None, for current_project_name (line 30)
NoName == <<"None">>

\* the answer to the overwrite question while it has not been asked (line 140)
NotAsked == <<"None">>

\* the text of an absolute path
PathText(path) == <<"/">> \o Join(<<"/">>, path)

(***************************************************************************)
(* _create_project: the files it generates and one turn of its loop        *)
(***************************************************************************)

RECURSIVE TechnologyItems(_)
\* for tech in technologies: f.write(f"- {tech}\n")
TechnologyItems(technologies) ==
  IF technologies = <<>> THEN <<>>
  ELSE <<"-", " ">> \o Head(technologies) \o <<"\n">> \o TechnologyItems(Tail(technologies))

\* everything written to README.md (lines 149-163)
ReadmeText(plan) ==
  <<"#", " ">> \o plan.project_name \o <<"\n", "\n">> \o plan.description \o <<"\n", "\n">>
    \o <<"## Technologies", "\n", "\n">> \o TechnologyItems(plan.technologies)
    \o <<"\n", "## Setup", "\n", "\n">>
    \o (IF InSeq(PYTHON, plan.technologies) THEN <<"(bash: venv, pip install)", "\n">>
        ELSE <<>>)

RECURSIVE RequirementsText(_)
\* for dep in dependencies: f.write(f"{dep}\n")
RequirementsText(dependencies) ==
  IF dependencies = <<>> THEN <<>>
  ELSE Head(dependencies) \o <<"\n">> \o RequirementsText(Tail(dependencies))

\* project_path = self.projects_dir / project_name
ProjectPath(plan) == PathJoin(ProjectsDir, plan.project_name)

\* how a step that wrote files ended: "ok", or "raised" with what it left on disk
Step(r) ==
  [status |-> IF r.err = "ok" THEN "ok" ELSE "raised", dirs |-> r.dirs, files |-> r.files]

\* how a step that made directories ended
DirStep(m, fl) ==
  [status |-> IF m.err = "ok" THEN "ok" ELSE "raised", dirs |-> m.dirs, files |-> fl]

\* after README.md was written with result w: requirements.txt, when "python" is a
\* technology (lines 166-169)
AfterReadme(plan, w) ==
  IF w.err = "ok" /\ InSeq(PYTHON, plan.technologies)
    THEN Step(WriteFile(w.dirs, w.files, Append(ProjectPath(plan), REQUIREMENTS_TXT),
                        RequirementsText(plan.dependencies)))
  ELSE Step(w)

\* after the root directory was made with result m: README.md (lines 148-163)
AfterRootMkdir(fl, plan, m) ==
  IF m.err # "ok" THEN DirStep(m, fl)
  ELSE AfterReadme(plan, WriteFile(m.dirs, fl, Append(ProjectPath(plan), README_MD),
                                   ReadmeText(plan)))

\* a head that never asks before it writes into a directory that is there
CreateProjectHead_NoQuestion(ds, fl, plan, confirm) ==
  AfterRootMkdir(fl, plan, MkdirParents(ds, fl, ProjectPath(plan)))

\* _create_project up to its loop: the overwrite question (confirm is the answer),
\* the root directory, README.md and requirements.txt (lines 135-169)
CreateProjectHead(ds, fl, plan, confirm) ==
  IF Exists(ds, fl, ProjectPath(plan)) /\ Lower(confirm) # <<"y">>
    THEN [status |-> "aborted", dirs |-> ds, files |-> fl]
  ELSE AfterRootMkdir(fl, plan, MkdirParents(ds, fl, ProjectPath(plan)))

\* a loop that creates the files of the structure only
CreateAt_SkipDirectories(ds, fl, full_path, item) ==
  IF item.type = "file" THEN Step(MkdirAndWrite(ds, fl, full_path, item.content))
  ELSE [status |-> "ok", dirs |-> ds, files |-> fl]

\* one item of the structure, at its full path (lines 175-183)
CreateAt(ds, fl, full_path, item) ==
  IF item.type = "directory" THEN DirStep(MkdirParents(ds, fl, full_path), fl)
  ELSE IF item.type = "file" THEN Step(MkdirAndWrite(ds, fl, full_path, item.content))
  ELSE [status |-> "ok", dirs |-> ds, files |-> fl]

\* a loop that leaves a file that is already there as it is
CreateItem_KeepExisting(ds, fl, root, item) ==
  IF FoldDots(<<>>, PathJoin(root, item.path)) \in DOMAIN fl
    THEN [status |-> "ok", dirs |-> ds, files |-> fl]
  ELSE CreateAt(ds, fl, PathJoin(root, item.path), item)

\* one item of the structure (lines 172-183)
CreateItem(ds, fl, root, item) == CreateAt(ds, fl, PathJoin(root, item.path), item)

\* _initialize_git after git init made the repository and .gitignore was written with
\* result w
GitResult(outcome, w) ==
  [ok |-> w.err = "ok" /\ outcome = "ok", dirs |-> w.dirs, files |-> w.files]

\* _initialize_git: git init, .gitignore, git add, git commit; outcome is how far git
\* gets: "no_init" (git init fails), "no_commit" (add or commit fails) or "ok"
InitializeGit(ds, fl, root, outcome) ==
  IF outcome = "no_init" THEN [ok |-> FALSE, dirs |-> ds, files |-> fl]
  ELSE GitResult(outcome,
                 WriteFile(ds \cup {Append(root, DOT_GIT)}, fl,
                           Append(root, <<".", "g", "i", "t", "i", "g", "n", "o", "r", "e">>),
                           <<"# Python, Node.js, IDE, OS patterns">>))

(***************************************************************************)
(* _load_project_info and _get_project_files                               *)
(***************************************************************************)

\* path lies strictly below root
Below(root, path) == Len(path) > Len(root) /\ SubSeq(path, 1, Len(root)) = root

RECURSIVE DictKeys(_, _)
\* the keys of a JSON object in the order a dict keeps them: a repeated key stays
\* where it first stood
DictKeys(keys, seen) ==
  IF keys = <<>> THEN seen
  ELSE DictKeys(Tail(keys), IF InSeq(Head(keys), seen) THEN seen ELSE Append(seen, Head(keys)))

\* what the loop over package_data["dependencies"] sees, for a package.json of the
\* shape {dependencies:{k,k,...}}: its keys; nothing for {} (no such key) and for any
\* other text (json.load raises, the bare except passes)
JsonDependencies(text) ==
  IF Len(text) > 2 /\ text[1] = "{dependencies:{" /\ text[Len(text)] = "}}"
    THEN DictKeys(Split(SubSeq(text, 2, Len(text) - 1), <<",">>), <<>>)
  ELSE <<>>

RECURSIVE AppendNew(_, _)
\* for dep in deps: if dep not in technologies: technologies.append(dep)
AppendNew(technologies, deps) ==
  IF deps = <<>> THEN technologies
  ELSE AppendNew(IF InSeq(Head(deps), technologies) THEN technologies
                 ELSE Append(technologies, Head(deps)), Tail(deps))

\* the package.json block, manifest being its path (lines 377-390)
NodeFrom(ds, fl, manifest) ==
  IF ~Exists(ds, fl, manifest) THEN <<>>
  ELSE IF manifest \notin DOMAIN fl THEN <<JAVASCRIPT, NODE>>
  ELSE AppendNew(<<JAVASCRIPT, NODE>>, JsonDependencies(fl[manifest]))

NodeTechnologies(ds, fl, project_path) == NodeFrom(ds, fl, Append(project_path, PACKAGE_JSON))

\* line.strip().split("==")[0].split(">=")[0]
RequirementName(line) == Split(Split(Strip(line), <<"=", "=">>)[1], <<">", "=">>)[1]

\* if dep and dep not in technologies: technologies.append(dep)
AddRequirement(technologies, dep) ==
  IF dep # <<>> /\ ~InSeq(dep, technologies) THEN Append(technologies, dep)
  ELSE technologies

RECURSIVE AppendRequirements(_, _)
\* for line in f: ... (lines 399-402)
AppendRequirements(technologies, lines) ==
  IF lines = <<>> THEN technologies
  ELSE AppendRequirements(AddRequirement(technologies, RequirementName(Head(lines))),
                          Tail(lines))

\* the requirements.txt block, manifest being its path (lines 393-404)
PythonFrom(ds, fl, manifest, technologies) ==
  IF ~Exists(ds, fl, manifest) THEN technologies
  ELSE IF manifest \notin DOMAIN fl THEN Append(technologies, PYTHON)
  ELSE AppendRequirements(Append(technologies, PYTHON), Split(fl[manifest], <<"\n">>))

PythonTechnologies(ds, fl, project_path, technologies) ==
  PythonFrom(ds, fl, Append(project_path, REQUIREMENTS_TXT), technologies)

\* project_path.glob("**/*" + suffix) finds something
GlobFinds(ds, fl, project_path, suffix) ==
  \E path \in ds \cup DOMAIN fl :
    Below(project_path, path) /\ EndsWith(path[Len(path)], suffix)

\* the guess from file extensions (lines 409-415)
GuessTechnologies(ds, fl, project_path) ==
  (IF GlobFinds(ds, fl, project_path, <<".", "p", "y">>) THEN <<PYTHON>> ELSE <<>>)
    \o (IF GlobFinds(ds, fl, project_path, <<".", "j", "s">>) THEN <<JAVASCRIPT>> ELSE <<>>)

\* if not self.current_project_technologies: ... = ["unknown"] (lines 417-418)
OrUnknown(technologies) == IF technologies = <<>> THEN <<<<"u", "n", "k", "n", "o", "w", "n">>>> ELSE technologies

\* the manifests' technologies, or the guess when they gave none (line 407)
OrGuess(ds, fl, project_path, found) ==
  IF found = <<>> THEN OrUnknown(GuessTechnologies(ds, fl, project_path)) ELSE found

\* self.current_project_technologies as _load_project_info leaves it (lines 373-418)
LoadTechnologies(ds, fl, project_path) ==
  OrGuess(ds, fl, project_path,
          PythonTechnologies(ds, fl, project_path, NodeTechnologies(ds, fl, project_path)))

\* Path(text).resolve(): absolute from the working directory, which is the projects
\* directory, ".." folded (line 364)
ResolvePath(text) == FoldDots(<<>>, PathJoin(ProjectsDir, text))

RECURSIVE SetToSeq(_)
\* the elements of a set in the order the directory walk happens to give
SetToSeq(S) ==
  IF S = {} THEN <<>>
  ELSE SetToSeq(S \ {CHOOSE y \in S : TRUE}) \o <<CHOOSE y \in S : TRUE>>

\* os.path.relpath of each listed path
Relative(listed, root) ==
  [i \in 1..Len(listed) |-> Join(<<"/">>, SubSeq(listed[i], Len(root) + 1, Len(listed[i])))]

\* _get_project_files: the root-relative text of every file below the root whose
\* name does not start with "."
GetProjectFiles(ds, fl, root) ==
  Relative(SetToSeq({path \in DOMAIN fl :
                       Below(root, path) /\ ~StartsWith(path[Len(path)], <<".">>)}), root)

(***************************************************************************)
(* _process_file_edits: one turn of its while loop                         *)
(***************************************************************************)

\* the turn once "END_FILE_EDIT" was searched from the end of the path line
ScanEnd(resp, start, file_path_end, file_edit_end) ==
  IF file_edit_end = -1 THEN [found |-> FALSE]
  ELSE [found |-> TRUE,
        start |-> start,
        file_path_end |-> file_path_end,
        file_edit_end |-> file_edit_end,
        file_path_str |-> Strip(Slice(resp, start + PathOffset, file_path_end)),
        file_content |-> Strip(Slice(resp, file_path_end + 1, file_edit_end)),
        replaced |-> Slice(resp, start, file_edit_end + SpanTail),
        next |-> Find(resp, FILE_EDIT, file_edit_end)]

\* a scanner that takes the end of the text for the end marker that is missing
ScanPath_EndOfText(resp, start, file_path_end) ==
  IF file_path_end = -1 THEN [found |-> FALSE]
  ELSE ScanEnd(resp, start, file_path_end,
               IF Find(resp, END_FILE_EDIT, file_path_end) = -1 THEN Len(resp)
               ELSE Find(resp, END_FILE_EDIT, file_path_end))

\* the turn once the end of the path line was searched from the marker
ScanPath(resp, start, file_path_end) ==
  IF file_path_end = -1 THEN [found |-> FALSE]
  ELSE ScanEnd(resp, start, file_path_end, Find(resp, END_FILE_EDIT, file_path_end))

\* what one turn reads off the response, scanning from file_edit_start; found is
\* FALSE when the loop ends instead (lines 462-476, 510)
ScanEdit(resp, start) ==
  IF start = -1 THEN [found |-> FALSE]
  ELSE ScanPath(resp, start, Find(resp, <<"\n">>, start))

\* an edit that leaves a file that is already there as it is
ApplyEdit_KeepExisting(ds, fl, root, file_path_str, file_content) ==
  IF FoldDots(<<>>, PathJoin(root, file_path_str)) \in DOMAIN fl
    THEN [err |-> "ok", dirs |-> ds, files |-> fl]
  ELSE MkdirAndWrite(ds, fl, PathJoin(root, file_path_str), file_content)

\* the try block: the parent directories, then the file (lines 479-487)
ApplyEdit(ds, fl, root, file_path_str, file_content) ==
  MkdirAndWrite(ds, fl, PathJoin(root, file_path_str), file_content)

\* the line that replaces a directive whose edit was written (line 492)
AppliedLine(file_path_str) == <<"[APPLIED CHANGES TO: ">> \o file_path_str \o <<"]">>

\* the line that replaces a directive whose edit raised (line 506)
ErrorLine(file_path_str, reason) ==
  <<"[ERROR UPDATING ">> \o file_path_str \o <<":", " ", reason, "]">>

\* the status line of an edit that ended with err
StatusLine(file_path_str, err) ==
  IF err = "ok" THEN AppliedLine(file_path_str) ELSE ErrorLine(file_path_str, err)

\* edited_response after the turn (lines 490-493, 504-507)
RenderEdit(edited, replaced, file_path_str, err) ==
  Replace(edited, replaced, StatusLine(file_path_str, err))

\* git add and git commit after a written edit: they succeed when the project has a
\* repository, the file lies inside it and the edit changed it (ds, fl: before the edit)
CommitsEdit(ds, fl, root, target, file_content) ==
  /\ Append(root, DOT_GIT) \in ds
  /\ Below(root, target)
  /\ (target \in DOMAIN fl => fl[target] # file_content)


(***************************************************************************)
(* _format_terminal_text (lines 514-543) and the textwrap.fill it calls.   *)
(* The backquote is written "BQ"; the escape sequences that switch bold on *)
(* and off are written "[" and "]". Lines hold no tab and no hyphen.       *)
(***************************************************************************)

\* the marker of a code block
FENCE == <<"BQ", "BQ", "BQ">>

\* textwrap.fill(line, width=80) (line 540)
Width == 80

\* how many characters the first chunk of s has: a run of spaces or a run of others
RunLength(s) ==
  Lowest({i \in 1..Len(s) : (s[i] = " ") # (s[1] = " ")} \cup {Len(s) + 1}) - 1

RECURSIVE Chunks(_)
\* the chunks of s once the first one is known to have n characters
ChunksAt(s, n) == <<SubSeq(s, 1, n)>> \o Chunks(SubSeq(s, n + 1, Len(s)))

\* TextWrapper._split: the words of s and the runs of spaces between them
Chunks(s) == IF s = <<>> THEN <<>> ELSE ChunksAt(s, RunLength(s))

RECURSIVE FillLine(_, _, _)
\* one line of TextWrapper._wrap_chunks: the chunks that fit after cur, and as much of
\* a chunk longer than width as still fits
FillLine(chunks, cur, width) ==
  IF chunks # <<>> /\ Len(cur) + Len(Head(chunks)) <= width
    THEN FillLine(Tail(chunks), cur \o Head(chunks), width)
  ELSE IF chunks # <<>> /\ Len(Head(chunks)) > width
    THEN [line |-> cur \o SubSeq(Head(chunks), 1, width - Len(cur)),
          rest |-> <<SubSeq(Head(chunks), width - Len(cur) + 1, Len(Head(chunks)))>>
                     \o Tail(chunks)]
  ELSE [line |-> cur, rest |-> chunks]

RECURSIVE WrapChunks(_, _, _)
\* the line filled is kept without the spaces at its end, unless nothing is left of it
WrapNext(filled, lines, width) ==
  WrapChunks(filled.rest,
             IF \A i \in 1..Len(filled.line) : filled.line[i] = " " THEN lines
             ELSE Append(lines, SubSeq(filled.line, 1,
                                       Highest({i \in 1..Len(filled.line) : filled.line[i] # " "}))),
             width)

\* TextWrapper._wrap_chunks: a line after the first one does not start with spaces
WrapChunks(chunks, lines, width) ==
  IF chunks = <<>> THEN lines
  ELSE WrapNext(FillLine(IF lines # <<>> /\ Head(Head(chunks)) = " " THEN Tail(chunks) ELSE chunks,
                         <<>>, width),
                lines, width)

\* textwrap.fill(line, width)
Fill(line, width) == Join(<<"\n">>, WrapChunks(Chunks(line), <<>>, width))

RECURSIVE FormatLines(_, _, _, _)
\* the loop over the lines of the text (lines 518-541)
FormatLines(lines, in_code_block, code_lines, result) ==
  IF lines = <<>> THEN result
  ELSE IF StartsWith(Strip(Head(lines)), FENCE)
    THEN IF ~in_code_block
           THEN FormatLines(Tail(lines), TRUE, code_lines,
                            Append(result,
                                   IF Strip(Slice(Strip(Head(lines)), Len(FENCE), Len(Head(lines)))) # <<>>
                                     THEN <<"\n", "[", "#", " ">>
                                            \o Strip(Slice(Strip(Head(lines)), Len(FENCE), Len(Head(lines))))
                                            \o <<" ", "c", "o", "d", "e", ":", "]">>
                                   ELSE <<"\n", "[", "#", " ", "C", "o", "d", "e", ":", "]">>))
         ELSE FormatLines(Tail(lines), FALSE, <<>>,
                          result \o << <<"\n">> \o Join(<<"\n">>, code_lines),
                                       <<"[", "#", " ", "E", "n", "d", " ", "o", "f", " ",
                                         "c", "o", "d", "e", "]", "\n">> >>)
  ELSE IF in_code_block
    THEN FormatLines(Tail(lines), TRUE, Append(code_lines, Head(lines)), result)
  ELSE FormatLines(Tail(lines), FALSE, code_lines,
                   Append(result, IF Strip(Head(lines)) # <<>> THEN Fill(Head(lines), Width)
                                  ELSE Head(lines)))

\* _format_terminal_text(text)
FormatTerminalText(text) ==
  Join(<<"\n">>, FormatLines(Split(text, <<"\n">>), FALSE, <<>>, <<>>))
(***************************************************************************)
(* The state of the program                                                *)
(***************************************************************************)

VARIABLES
  pc,                            \* where the process is: "main" (the prompt of main),
                                 \* "cli_build", "cli_chat" (a command-line run about to
                                 \* start), "create" (in the loop of _create_project),
                                 \* "chat" (the prompt of chat_mode), "edits" (in the loop
                                 \* of _process_file_edits), "exited", "crashed" (exit 1)
  cli,                           \* args.command: "interactive", "build" or "chat"
  inputs,                        \* how many lines the two prompts have read
  dirs,                          \* the directories of the filesystem
  files,                         \* the files of the filesystem and their contents
  commits,                       \* the commits made in the project repository
  current_project_path,
  current_project_name,
  current_project_technologies,
  messages,
  project_plan,                  \* build_project: the plan being created
  item_idx,                      \* _create_project: the next item of the structure
  existed,                       \* _create_project: project_path.exists() on entry
  confirm,                       \* _create_project: the answer to the overwrite question
  user_input,                    \* chat_mode: the line last read at its prompt
  build_result,                  \* what the last build_project returned, as text
  response,                      \* _process_file_edits: the collaborator's reply
  edited_response,
  file_edit_start,
  edits,                         \* _process_file_edits: what each turn did
  formatted_response,            \* chat_mode: the reply as laid out for the terminal
  printed                        \* what the last step printed

vars ==
  <<pc, cli, inputs, dirs, files, commits, current_project_path, current_project_name,
    current_project_technologies, messages, project_plan, item_idx, existed,
    confirm, user_input, build_result, response, edited_response, file_edit_start, edits,
    formatted_response, printed>>

(***************************************************************************)
(* Bounds and the inputs the model draws from                              *)
(***************************************************************************)

\* lines read at the prompts in one run
MaxInputs == 3

\* pieces a collaborator reply is put together from
MaxPieces == 3

\* items of a plan's structure
MaxItems == 3

\* lines of a requirements.txt, keys of a package.json
MaxLines == 2

\* the one project name the collaborator proposes
DEMO == <<"d">>

Root == Append(ProjectsDir, DEMO)

File(path, content) == [path |-> path, type |-> "file", content |-> content]

Directory(path) == [path |-> path, type |-> "directory", content |-> <<>>]

Plan(technologies, structure) ==
  [project_name |-> DEMO, description |-> <<"D">>, technologies |-> technologies,
   dependencies |-> <<<<"f", "l", "a", "s", "k">>>>, structure |-> structure]

\* a well-formed directive: the marker and the path, the content, the end marker
Directive(path, content) ==
  FILE_EDIT \o path \o <<"\n">> \o content \o (IF content = <<>> THEN <<>> ELSE <<"\n">>)
    \o END_FILE_EDIT

RECURSIVE SeqsUpTo(_, _)
\* the sequences of at most n elements of S
SeqsUpTo(S, n) ==
  IF n = 0 THEN {<<>>}
  ELSE SeqsUpTo(S, n - 1)
         \cup {Append(s, x) : s \in {t \in SeqsUpTo(S, n - 1) : Len(t) = n - 1}, x \in S}

RECURSIVE Concat(_)
\* the texts of parts, one after the other
Concat(parts) == IF parts = <<>> THEN <<>> ELSE Head(parts) \o Concat(Tail(parts))

\* a filesystem with the projects directory, the directories ds and the files fl
World(ds, fl) == [dirs |-> {<<>>, ProjectsDir} \cup ds, files |-> fl]

\* nothing but the projects directory
EmptyWorld == World({}, <<>>)

\* an existing project: a directory a, a file b, a repository
ProjectWorld ==
  World({Root, Root \o <<<<"a">>>>, Root \o <<DOT_GIT>>},
        (Root \o <<<<"b">>>>) :> <<"x">>)

\* an existing project with both manifests
ManifestWorld ==
  World({Root},
        (Root \o <<PACKAGE_JSON>>) :> <<"{dependencies:{", "a", ",", "b", "}}">>
          @@ (Root \o <<REQUIREMENTS_TXT>>) :> <<"b", "=", "=", "1", "\n", "a", ">", "=", "2", "\n">>)

SessionPlans ==
  { Plan(<<PYTHON>>, <<File(<<"a", "/", "b">>, <<"x">>), Directory(<<"c">>)>>),
    Plan(<<>>, <<File(<<".", ".", "/", "e">>, <<"x">>), File(README_MD, <<"y">>)>>),
    Plan(<<NODE>>, <<File(<<"b">>, <<>>), File(<<"b", "/", "c">>, <<"x">>)>>) }

SessionResponses ==
  { <<"o", "k">>,
    <<"z", "\n">> \o Directive(<<"a">>, <<"x">>) \o <<"\n", "z">>,
    Directive(<<".", ".", "/", "e">>, <<"x">>),
    Directive(<<"b", "/", "c">>, <<"y">>) \o <<"\n">> \o Directive(<<"c">>, <<"y">>) }

MainInputs ==
  { CMD_EXIT, <<"@", "B", "Y", "E">>, CMD_BUILD \o <<"x">>, CMD_BUILD, CMD_CHAT \o DEMO, CMD_CHAT,
    CMD_CHAT \o <<"e">>, CMD_HELP, <<"x">> }

ChatInputs ==
  { CMD_EXIT, <<"@", "B", "Y", "E">>, CMD_FILES, CMD_READ \o <<"b">>, CMD_READ \o <<"e">>, CMD_HELP,
    <<"x">>, <<"@", "c", "h", "a", "t">> }

(***************************************************************************)
(* Initial states: the constructor has run (lines 14-34)                   *)
(***************************************************************************)

\* the start of a run with one of the commands start, on one of the filesystems worlds
InitIn(worlds, start) ==
  /\ \E w \in worlds : dirs = w.dirs /\ files = w.files
  /\ cli \in start
  /\ pc = (IF cli = "interactive" THEN "main" ELSE IF cli = "build" THEN "cli_build"
           ELSE "cli_chat")
  /\ inputs = 0
  /\ commits = <<>>
  /\ current_project_path = None
  /\ current_project_name = NoName
  /\ current_project_technologies = <<>>
  /\ messages = <<>>
  /\ project_plan = [project_name |-> <<>>, description |-> <<>>, technologies |-> <<>>,
                     dependencies |-> <<>>, structure |-> <<>>]
  /\ item_idx = 0
  /\ existed = FALSE
  /\ confirm = NotAsked
  /\ user_input = <<>>
  /\ formatted_response = <<>>
  /\ build_result = "none"
  /\ response = <<>>
  /\ edited_response = <<>>
  /\ file_edit_start = -1
  /\ edits = <<>>
  /\ printed = "banner"

Init == InitIn({EmptyWorld, ProjectWorld, ManifestWorld}, {"interactive", "build", "chat"})

(***************************************************************************)
(* main: the interactive prompt (lines 577-602) and the command-line runs  *)
(***************************************************************************)

\* where a finished command returns to: the prompt of main, or the end of the run
ReturnPc == IF cli = "interactive" THEN "main" ELSE "exited"

IsExit(line) ==
  Lower(line) \in {CMD_EXIT, <<"@", "q", "u", "i", "t">>, <<"@", "b", "y", "e">>}

IsBuild(line) == ~IsExit(line) /\ StartsWith(Lower(line), CMD_BUILD)

IsChat(line) == ~IsExit(line) /\ ~IsBuild(line) /\ StartsWith(Lower(line), CMD_CHAT)

IsMainHelp(line) == ~IsExit(line) /\ ~IsBuild(line) /\ ~IsChat(line) /\ Lower(line) = CMD_HELP

\* input("> ") at the prompt of main returns line
MainReads(line) ==
  /\ pc = "main"
  /\ inputs < MaxInputs
  /\ line \in MainInputs
  /\ inputs' = inputs + 1
  /\ UNCHANGED user_input

\* a step that only prints
OnlyPrints(what) ==
  /\ printed' = what
  /\ UNCHANGED <<formatted_response,
                 cli, dirs, files, commits, current_project_path, current_project_name,
                 current_project_technologies, messages, project_plan, item_idx, existed, confirm,
                 build_result, response, edited_response, file_edit_start, edits>>

\* KeyboardInterrupt or EOFError at the prompt of main
MainInterrupt ==
  /\ pc = "main"
  /\ pc' = "exited"
  /\ UNCHANGED <<inputs, user_input>>
  /\ OnlyPrints("exiting")

MainExit ==
  /\ \E line \in MainInputs : MainReads(line) /\ IsExit(line)
  /\ pc' = "exited"
  /\ OnlyPrints("exiting")

\* "@build " with nothing after it
MainBuildNoPrompt ==
  /\ \E line \in MainInputs :
       MainReads(line) /\ IsBuild(line) /\ Strip(Slice(line, 7, Len(line))) = <<>>
  /\ pc' = "main"
  /\ OnlyPrints("need_idea")

MainHelp ==
  /\ \E line \in MainInputs : MainReads(line) /\ IsMainHelp(line)
  /\ pc' = "main"
  /\ OnlyPrints("help")

MainUnknown ==
  /\ \E line \in MainInputs :
       MainReads(line) /\ ~IsExit(line) /\ ~IsBuild(line) /\ ~IsChat(line)
         /\ ~IsMainHelp(line)
  /\ pc' = "main"
  /\ OnlyPrints("unknown_command")

(***************************************************************************)
(* build_project (lines 36-76)                                             *)
(***************************************************************************)

\* build_project is called: "@build <prompt>" at the prompt of main, or the build
\* command of the command line
BuildCalled ==
  \/ \E line \in MainInputs :
       MainReads(line) /\ IsBuild(line) /\ Strip(Slice(line, 7, Len(line))) # <<>>
  \/ pc = "cli_build" /\ UNCHANGED <<inputs, user_input>>

\* the collaborator's call raises in _generate_project_plan: nothing catches it before
\* the handler of main, which prints the error and exits 1 (lines 619-621)
BuildCollaboratorFails ==
  /\ BuildCalled
  /\ pc' = "crashed"
  /\ OnlyPrints("collab_error")

\* the collaborator's text is no JSON: sys.exit(1) (lines 129-131)
BuildMalformedPlan ==
  /\ BuildCalled
  /\ pc' = "crashed"
  /\ OnlyPrints("plan_error")

\* build_project once _create_project has run up to its loop with result head: None
\* returned (False), an exception on its way to main, or the loop entered
BuildStarted(plan, answer, head) ==
  /\ project_plan' = plan
  /\ existed' = Exists(dirs, files, ProjectPath(plan))
  /\ confirm' = (IF Exists(dirs, files, ProjectPath(plan)) THEN answer ELSE NotAsked)
  /\ dirs' = head.dirs
  /\ files' = head.files
  /\ item_idx' = (IF head.status = "ok" THEN 1 ELSE 0)
  /\ pc' = (IF head.status = "ok" THEN "create"
            ELSE IF head.status = "aborted" THEN ReturnPc ELSE "crashed")
  /\ build_result' = (IF head.status = "aborted" THEN "false" ELSE "none")
  /\ printed' = (IF head.status = "ok" THEN "summary"
                 ELSE IF head.status = "aborted" THEN "aborted" ELSE "error")

\* the plan arrives, one of plans, and _create_project runs up to its loop
BuildStart(plans) ==
  /\ BuildCalled
  /\ \E plan \in plans, answer \in {<<"y">>, <<"Y">>, <<"n">>, <<>>} :
       BuildStarted(plan, answer, CreateProjectHead(dirs, files, plan, answer))
  /\ UNCHANGED <<formatted_response,
                 cli, commits, current_project_path, current_project_name,
                 current_project_technologies, messages, response, edited_response,
                 file_edit_start, edits, user_input>>

\* the loop after a turn that ended as step: an exception leaves what was written and
\* ends the run in the handler of main
ItemCreated(step) ==
  /\ dirs' = step.dirs
  /\ files' = step.files
  /\ pc' = (IF step.status = "ok" THEN "create" ELSE "crashed")
  /\ item_idx' = (IF step.status = "ok" THEN item_idx + 1 ELSE item_idx)
  /\ printed' = (IF step.status = "ok" THEN printed ELSE "error")

\* one turn of the loop over the structure (lines 172-183)
CreateNextItem ==
  /\ pc = "create"
  /\ item_idx <= Len(project_plan.structure)
  /\ ItemCreated(CreateItem(dirs, files, ProjectPath(project_plan),
                            project_plan.structure[item_idx]))
  /\ UNCHANGED <<formatted_response,
                 cli, inputs, commits, current_project_path, current_project_name,
                 current_project_technologies, messages, project_plan, existed, confirm,
                 build_result, response, edited_response, file_edit_start, edits, user_input>>

\* what _initialize_git left, git being its result
GitDone(git) ==
  /\ dirs' = git.dirs
  /\ files' = git.files
  /\ commits' = (IF git.ok THEN Append(commits, <<"Initial commit">>) ELSE commits)

\* _create_project returns the path: the project becomes the current one and
\* _initialize_git runs (lines 51-74)
BuildFinish ==
  /\ pc = "create"
  /\ item_idx > Len(project_plan.structure)
  /\ \E outcome \in {"no_init", "no_commit", "ok"} :
       GitDone(InitializeGit(dirs, files, ProjectPath(project_plan), outcome))
  /\ current_project_path' = ProjectPath(project_plan)
  /\ current_project_name' = project_plan.project_name
  /\ current_project_technologies' = project_plan.technologies
  /\ build_result' = "true"
  /\ printed' = "created"
  /\ pc' = ReturnPc
  /\ UNCHANGED <<formatted_response,
                 cli, inputs, messages, project_plan, item_idx, existed, confirm, response,
                 edited_response, file_edit_start, edits, user_input>>

(***************************************************************************)
(* chat_mode (lines 253-360)                                               *)
(***************************************************************************)

Message(role, content) == [role |-> role, content |-> content]

\* the system prompt: the name, the technologies, the path and the file listing
SystemPrompt(name, technologies, path, file_list) ==
  <<"assistant for ">> \o name \o <<" using ">> \o Join(<<",", " ">>, technologies)
    \o <<" at ">> \o PathText(path) \o <<" files: ">> \o Join(<<"\n">>, file_list)
    \o <<" (how to edit files)">>

\* the first assistant message
Greeting(name, path) ==
  <<"assistant for ">> \o name \o <<" at ">> \o PathText(path) \o <<" (what to modify?)">>

\* self.messages as chat_mode sets it before its loop (lines 267-299)
FirstMessages(ds, fl, path, name, technologies) ==
  << Message("system", SystemPrompt(name, technologies, path, GetProjectFiles(ds, fl, path))),
     Message("assistant", Greeting(name, path)) >>

\* chat_mode from its history on, the current project being path, name, technologies
ChatStarts(path, name, technologies) ==
  /\ pc' = "chat"
  /\ printed' = "greeting"
  /\ current_project_path' = path
  /\ current_project_name' = name
  /\ current_project_technologies' = technologies
  /\ messages' = FirstMessages(dirs, files, path, name, technologies)
  /\ UNCHANGED <<formatted_response,
                 cli, dirs, files, commits, project_plan, item_idx, existed, confirm,
                 build_result, response, edited_response, file_edit_start, edits, user_input>>

\* chat_mode(project_path): _load_project_info on the resolved path
ChatModeAt(project_path) ==
  IF ~IsDir(dirs, files, project_path)
    THEN pc' = ReturnPc /\ OnlyPrints("cannot_load")
  ELSE ChatStarts(project_path,
                  IF project_path = <<>> THEN <<>> ELSE project_path[Len(project_path)],
                  LoadTechnologies(dirs, files, project_path))

\* chat_mode(text) up to its loop; an empty text is no path
ChatMode(text) ==
  IF text # <<>> THEN ChatModeAt(ResolvePath(text))
  ELSE IF current_project_path = None THEN pc' = ReturnPc /\ OnlyPrints("no_project")
  ELSE ChatStarts(current_project_path, current_project_name,
                  current_project_technologies)

\* "@chat <path>" or "@chat " at the prompt of main
MainChat ==
  \E line \in MainInputs :
    /\ MainReads(line)
    /\ IsChat(line)
    /\ ChatMode(Strip(Slice(line, 6, Len(line))))

\* the chat command of the command line, with or without a path
CliChat ==
  /\ pc = "cli_chat"
  /\ UNCHANGED <<inputs, user_input>>
  /\ \E text \in {DEMO, <<"e">>, <<>>} : ChatMode(text)

\* input("\n> ") at the prompt of chat_mode returns line
ChatReads(line) ==
  /\ pc = "chat"
  /\ inputs < MaxInputs
  /\ line \in ChatInputs
  /\ inputs' = inputs + 1
  /\ user_input' = line

IsFiles(line) == ~IsExit(line) /\ Lower(line) = CMD_FILES

IsRead(line) == ~IsExit(line) /\ ~IsFiles(line) /\ StartsWith(Lower(line), CMD_READ)

IsChatHelp(line) == ~IsExit(line) /\ ~IsFiles(line) /\ ~IsRead(line) /\ Lower(line) = CMD_HELP

\* a loop whose directives, but for the exits, do not end their turn
IsMessage_NoContinue(line) == ~IsExit(line)

\* a line that is no directive of the session: it goes to the collaborator
IsMessage(line) == ~IsExit(line) /\ ~IsFiles(line) /\ ~IsRead(line) /\ ~IsChatHelp(line)

\* KeyboardInterrupt or EOFError at the prompt of chat_mode
ChatInterrupt ==
  /\ pc = "chat"
  /\ pc' = ReturnPc
  /\ UNCHANGED <<inputs, user_input>>
  /\ OnlyPrints("exiting")

ChatExit ==
  /\ \E line \in ChatInputs : ChatReads(line) /\ IsExit(line)
  /\ pc' = ReturnPc
  /\ OnlyPrints("exiting")

ChatFiles ==
  /\ \E line \in ChatInputs : ChatReads(line) /\ IsFiles(line)
  /\ pc' = "chat"
  /\ OnlyPrints("files")

\* _read_file: the content, or the error of the open (lines 443-454)
ReadFile(filepath) ==
  IF Stat(dirs, files, PathJoin(current_project_path, filepath)).kind = "file"
    THEN "file" ELSE "read_error"

ChatRead ==
  \E line \in ChatInputs :
    /\ ChatReads(line)
    /\ IsRead(line)
    /\ pc' = "chat"
    /\ OnlyPrints(ReadFile(Strip(Slice(line, 6, Len(line)))))

ChatHelp ==
  /\ \E line \in ChatInputs : ChatReads(line) /\ IsChatHelp(line)
  /\ pc' = "chat"
  /\ OnlyPrints("help")

\* a line for the collaborator is read and joins the history (line 334)
UserMessage ==
  \E line \in ChatInputs :
    /\ ChatReads(line)
    /\ IsMessage(line)
    /\ messages' = Append(messages, Message("user", line))

\* the collaborator's call raises: the except of the loop prints it (lines 359-360)
ChatCollaboratorFails ==
  /\ UserMessage
  /\ pc' = "chat"
  /\ printed' = "collab_error"
  /\ UNCHANGED <<formatted_response,
                 cli, dirs, files, commits, current_project_path, current_project_name,
                 current_project_technologies, project_plan, item_idx, existed, confirm,
                 build_result, response, edited_response, file_edit_start, edits>>

\* the collaborator answers with one of texts: _process_file_edits starts on it
ChatMessage(texts) ==
  /\ UserMessage
  /\ response' \in texts
  /\ edited_response' = response'
  /\ file_edit_start' = Find(response', FILE_EDIT, 0)
  /\ edits' = <<>>
  /\ pc' = "edits"
  /\ printed' = "thinking"
  /\ UNCHANGED <<formatted_response,
                 cli, dirs, files, commits, current_project_path, current_project_name,
                 current_project_technologies, project_plan, item_idx, existed, confirm,
                 build_result>>

\* the turn that read scan off the response, its try block having ended as done
EditApplied(scan, done) ==
  /\ dirs' = done.dirs
  /\ files' = done.files
  /\ edited_response' = RenderEdit(edited_response, scan.replaced, scan.file_path_str,
                                   done.err)
  /\ commits' = (IF done.err = "ok"
                   /\ CommitsEdit(dirs, files, current_project_path,
                                  FoldDots(<<>>, PathJoin(current_project_path,
                                                          scan.file_path_str)),
                                  scan.file_content)
                 THEN Append(commits, <<"Update ">> \o scan.file_path_str)
                 ELSE commits)
  /\ edits' = Append(edits, [start |-> scan.start, end |-> scan.file_edit_end,
                             path |-> scan.file_path_str, content |-> scan.file_content,
                             err |-> done.err])
  /\ file_edit_start' = scan.next

\* the turn that read scan off the response
EditScanned(scan) ==
  /\ scan.found
  /\ EditApplied(scan, ApplyEdit(dirs, files, current_project_path, scan.file_path_str,
                                 scan.file_content))

\* one turn of the while loop of _process_file_edits (lines 462-510)
ProcessFileEdit ==
  /\ pc = "edits"
  /\ EditScanned(ScanEdit(response, file_edit_start))
  /\ UNCHANGED <<formatted_response,
                 pc, cli, inputs, current_project_path, current_project_name,
                 current_project_technologies, messages, project_plan, item_idx, existed, confirm,
                 build_result, response, printed, user_input>>

\* the loop ends; the reply joins the history and the edited text is printed
\* (lines 350-357)
ChatReply ==
  /\ pc = "edits"
  /\ ~ScanEdit(response, file_edit_start).found
  /\ messages' = Append(messages, Message("assistant", response))
  /\ formatted_response' = FormatTerminalText(edited_response)
  /\ printed' = "reply"
  /\ pc' = "chat"
  /\ UNCHANGED <<cli, inputs, dirs, files, commits, current_project_path,
                 current_project_name, current_project_technologies, project_plan,
                 item_idx, existed, confirm, build_result, response, edited_response,
                 file_edit_start, edits, user_input>>

(***************************************************************************)
(* The program                                                             *)
(***************************************************************************)

Next ==
  \/ MainInterrupt
  \/ MainExit
  \/ MainBuildNoPrompt
  \/ MainHelp
  \/ MainUnknown
  \/ MainChat
  \/ CliChat
  \/ BuildCollaboratorFails
  \/ BuildMalformedPlan
  \/ BuildStart(SessionPlans)
  \/ CreateNextItem
  \/ BuildFinish
  \/ ChatInterrupt
  \/ ChatExit
  \/ ChatFiles
  \/ ChatRead
  \/ ChatHelp
  \/ ChatCollaboratorFails
  \/ ChatMessage(SessionResponses)
  \/ ProcessFileEdit
  \/ ChatReply

Spec == Init /\ [][Next]_vars

(***************************************************************************)
(* One reply, drawn from every text of at most MaxPieces pieces: chat_mode *)
(* is started from the command line and _process_file_edits runs on the    *)
(* first reply.                                                            *)
(***************************************************************************)

\* what replies are made of: whole directives (one path twice, a path below a, an
\* empty content, a path above the root), a marker with its path and no more, the tail
\* that turns a preceding "END_FILE_EDIT" into the start of another directive, free text
EditPieces ==
  { Directive(<<"a">>, <<"x">>),
    Directive(<<"a">>, <<"y">>),
    Directive(<<"a", "/", "c">>, <<"x">>),
    Directive(<<"b">>, <<>>),
    Directive(<<".", ".", "/", "e">>, <<"x">>),
    FILE_EDIT \o <<"b">>,
    <<":", " ", "b", "\n", "y", "\n">> \o END_FILE_EDIT,
    <<"z">>,
    <<"\n">> }

EditTexts == {Concat(pieces) : pieces \in SeqsUpTo(EditPieces, MaxPieces)}

NextEdits ==
  \/ CliChat
  \/ inputs = 0 /\ ChatMessage(EditTexts)
  \/ ProcessFileEdit
  \/ ChatReply

SpecEdits == InitIn({World({Root}, <<>>), ProjectWorld}, {"chat"}) /\ [][NextEdits]_vars

(***************************************************************************)
(* One build from the command line, the plan drawn from every structure of *)
(* at most MaxItems items.                                                 *)
(***************************************************************************)

PlanItems ==
  { File(<<"a">>, <<"x">>),
    File(<<"a">>, <<"y">>),
    File(<<"a", "/", "c">>, <<"x">>),
    File(<<"b">>, <<>>),
    File(<<".", ".", "/", "e">>, <<"x">>),
    File(README_MD, <<"y">>),
    File(REQUIREMENTS_TXT, <<"y">>),
    Directory(<<"a">>),
    Directory(<<"c", "/", "d">>) }

RichPlans ==
  {Plan(technologies, structure) :
     technologies \in {<<>>, <<PYTHON>>}, structure \in SeqsUpTo(PlanItems, MaxItems)}

NextMaterialize ==
  \/ BuildStart(RichPlans)
  \/ CreateNextItem
  \/ BuildFinish

SpecMaterialize == InitIn({EmptyWorld, ProjectWorld}, {"build"}) /\ [][NextMaterialize]_vars

(***************************************************************************)
(* One inspection from the command line, the two manifests drawn from      *)
(* every list of at most MaxLines names or lines.                          *)
(***************************************************************************)

\* lines of a requirements.txt
RequirementLines ==
  { <<"f", "l", "a", "s", "k", "=", "=", "2", ".", "0", ".", "1">>, <<"r", "e", "q", "u", "e", "s", "t", "s", ">", "=", "2", ".", "0">>, <<" ", "a", " ">>, <<"b">>, <<>>, PYTHON, NODE }

\* the texts a package.json may hold: no JSON, no dependencies, dependencies
PackageTexts ==
  {<<"x">>, <<"{}">>}
    \cup {<<"{dependencies:{">> \o Join(<<",">>, keys) \o <<"}}">> :
            keys \in SeqsUpTo({<<"a">>, <<"b">>, PYTHON}, MaxLines)}

\* the texts a requirements.txt may hold
RequirementTexts == {Join(<<"\n">>, lines) : lines \in SeqsUpTo(RequirementLines, MaxLines)}

InspectWorlds ==
  {World({Root}, sources) :
     sources \in
       { <<>>,
         (Root \o <<<<"m", ".", "p", "y">>>>) :> <<"x">>,
         (Root \o <<<<"m", ".", "j", "s">>>>) :> <<"x">> @@ (Root \o <<<<"b">>>>) :> <<"x">> }}
    \cup {World({Root}, (Root \o <<PACKAGE_JSON>>) :> package) : package \in PackageTexts}
    \cup {World({Root}, (Root \o <<REQUIREMENTS_TXT>>) :> requirements) :
            requirements \in RequirementTexts}
    \cup {World({Root}, (Root \o <<PACKAGE_JSON>>) :> package
                          @@ (Root \o <<REQUIREMENTS_TXT>>) :> requirements) :
            package \in PackageTexts, requirements \in RequirementTexts}

NextInspect ==
  \/ CliChat
  \/ ChatInterrupt

SpecInspect == InitIn(InspectWorlds, {"chat"}) /\ [][NextInspect]_vars


(***************************************************************************)
(* One chat session whose reply is laid out for the terminal, the reply    *)
(* drawn from every text of at most MaxPieces lines.                       *)
(***************************************************************************)

\* what the lines of a reply are: a word, a blank line, a fence, an indented fence with
\* a language, words with spaces around and between them, a word longer than the
\* width, a word of the width followed by another one, a fence followed by a word
TerminalLines ==
  { <<"x">>,
    <<>>,
    FENCE,
    <<" ">> \o FENCE \o <<" ", "p", "y", " ">>,
    <<" ", "y", " ", " ", "z", " ">>,
    [i \in 1..(Width + 1) |-> "w"],
    [i \in 1..Width |-> "v"] \o <<" ", " ", "u">>,
    FENCE \o <<"BQ", "x">> }

TerminalTexts == {Join(<<"\n">>, lines) : lines \in SeqsUpTo(TerminalLines, MaxPieces)}

NextFormat ==
  \/ CliChat
  \/ inputs = 0 /\ ChatMessage(TerminalTexts)
  \/ ChatReply

SpecFormat == InitIn({ProjectWorld}, {"chat"}) /\ [][NextFormat]_vars
(***************************************************************************)
(* What the claims speak of                                                *)
(***************************************************************************)

\* a reply has been processed to its end and printed
BatchDone == pc = "chat" /\ printed = "reply"

\* path is the project root or lies below it
InRoot(path) == path = Root \/ Below(Root, path)

\* where the file of a path text lies once the operating system has resolved it
Target(text) == FoldDots(<<>>, PathJoin(Root, text))

RECURSIVE Sorted(_)
\* the elements of a set of integers in ascending order
Sorted(S) == IF S = {} THEN <<>> ELSE <<Lowest(S)>> \o Sorted(S \ {Lowest(S)})

\* the indices of text where a "FILE_EDIT: " marker stands
Markers(text) == {i \in 0..Len(text) : OccursAt(text, FILE_EDIT, i)}

\* the indices of text where an "END_FILE_EDIT" marker stands
EndMarkers(text) == {i \in 0..Len(text) : OccursAt(text, END_FILE_EDIT, i)}

\* the index of the line end that closes the path line of the marker at m
PathLineEnd(text, m) == Lowest({i \in m..(Len(text) - 1) : text[i + 1] = "\n"})

\* the directive whose marker stands at m and whose end marker stands at e
DirectiveAt(text, m, e) ==
  [start |-> m, end |-> e,
   path |-> Strip(Slice(text, m + Len(FILE_EDIT), PathLineEnd(text, m))),
   content |-> Strip(Slice(text, PathLineEnd(text, m) + 1, e))]

\* markers ms and end markers es pair up into directives that follow one another: each
\* marker has its path line and then its end marker, and the next marker stands after
\* the last character of that end marker
PairUp(text, ms, es) ==
  /\ Len(ms) = Len(es)
  /\ \A k \in 1..Len(ms) :
       /\ PathLineEnd(text, ms[k]) # -1
       /\ PathLineEnd(text, ms[k]) < es[k]
       /\ k < Len(ms) => es[k] + Len(END_FILE_EDIT) <= ms[k + 1]

\* text holds nothing but free text and well-formed directives that do not overlap
WellFormed(text) == PairUp(text, Sorted(Markers(text)), Sorted(EndMarkers(text)))

\* the directives of a well-formed text, in document order
Directives(text) ==
  [k \in 1..Cardinality(Markers(text)) |->
     DirectiveAt(text, Sorted(Markers(text))[k], Sorted(EndMarkers(text))[k])]

\* text before its last marker
BeforeLastMarker(text) == Slice(text, 0, Highest(Markers(text)))

\* text ends in a directive that is never closed, after well-formed directives
UnterminatedTail(text) ==
  /\ Markers(text) # {}
  /\ \A e \in EndMarkers(text) : e < Highest(Markers(text))
  /\ WellFormed(BeforeLastMarker(text))

\* the instruction of each turn, without its outcome
Instructions ==
  [k \in 1..Len(edits) |->
     [start |-> edits[k].start, end |-> edits[k].end, path |-> edits[k].path,
      content |-> edits[k].content]]

\* t occurs somewhere in s
Contains(s, t) == Find(s, t, 0) # -1

RECURSIVE RenderFrom(_, _, _)
\* text from index pos on, with each of the turns done from the k-th on replaced, from
\* the first character of its marker through the last of its end marker, by its
\* status line
RenderFrom(text, k, pos) ==
  IF k > Len(edits) THEN Slice(text, pos, Len(text))
  ELSE Slice(text, pos, edits[k].start) \o StatusLine(edits[k].path, edits[k].err)
         \o RenderFrom(text, k + 1, edits[k].end + Len(END_FILE_EDIT))

\* the consumed spans follow one another without overlap
SpansDisjoint ==
  \A k \in 1..(Len(edits) - 1) : edits[k].end + Len(END_FILE_EDIT) <= edits[k + 1].start

(***************************************************************************)
(* The claims                                                              *)
(***************************************************************************)

\* C1: a path from a plan entry or an edit directive that resolves above the project
\* root is rejected, and no file or directory outside the project root is ever created
\* or overwritten: the filesystem outside the root stays what it was at the start (the
\* root of the filesystem and the projects directory), and no edit whose path leaves
\* the root is applied.
C1_NothingOutsideRoot ==
  /\ \A path \in dirs \cup DOMAIN files : path \in {<<>>, ProjectsDir} \/ InRoot(path)
  /\ \A k \in 1..Len(edits) : edits[k].err = "ok" => InRoot(Target(edits[k].path))

\* C2: in a reply of well-formed directives, a failing edit does not keep the later
\* directives from being applied (every directive gets its turn, in order), and every
\* failed edit is reported in the rendered reply by its error line, with its path and
\* the reason.
C2_FailuresIsolated ==
  BatchDone /\ WellFormed(response) =>
    /\ Instructions = Directives(response)
    /\ \A k \in 1..Len(edits) :
         edits[k].err # "ok" =>
           Contains(edited_response, ErrorLine(edits[k].path, edits[k].err))

\* C3: parsing yields no instruction for a text without a "FILE_EDIT: " marker, exactly
\* the two instructions, in document order, of a text with two well-formed directives,
\* and, for a text that ends in an unterminated directive, the instructions of the
\* well-formed directives before it and none for the tail.
C3_ParseYields ==
  BatchDone =>
    /\ Markers(response) = {} => edits = <<>>
    /\ WellFormed(response) /\ Cardinality(Markers(response)) = 2 =>
         Len(edits) = 2 /\ Instructions = Directives(response)
    /\ UnterminatedTail(response) =>
         Instructions = Directives(BeforeLastMarker(response))

\* C3 happens: a reply with two well-formed directives has been parsed into two
\* instructions
C3_Witness ==
  /\ BatchDone
  /\ WellFormed(response)
  /\ Cardinality(Markers(response)) = 2
  /\ Len(edits) = 2

\* C4: in the rendered reply each consumed directive is replaced over exactly its own
\* span, from the first character of its marker through the last character of its end
\* marker, by the status line of its own outcome, and every character outside the
\* consumed spans is unchanged.
C4_ExactSpans ==
  BatchDone /\ SpansDisjoint => edited_response = RenderFrom(response, 1, 0)

\* C5: whenever the collaborator's call raises in an interactive session, in a chat
\* round or in an "@build" at the prompt, the error is reported and the session goes
\* on: the process is back at a prompt, where the next input is read.
C5_SessionContinues ==
  cli = "interactive" /\ printed = "collab_error" => pc \in {"main", "chat"}

\* _create_project has run through its loop, into a root that was not there before
MaterializeDone ==
  pc = "create" /\ item_idx > Len(project_plan.structure) /\ ~existed

\* the entries of the plan of one type, by their index in the structure
Entries(type) ==
  {i \in 1..Len(project_plan.structure) : project_plan.structure[i].type = type}

\* where entry i of the plan lies once the operating system has resolved its path
EntryTarget(i) == Target(project_plan.structure[i].path)

\* the regular files under the project root
FilesInRoot == {path \in DOMAIN files : InRoot(path)}

\* the directories below the project root
DirsInRoot == {path \in dirs : Below(Root, path)}

\* the files _create_project writes by itself: README.md, and requirements.txt for a
\* plan with the technology "python"
OwnFiles ==
  {Append(Root, README_MD)}
    \cup (IF InSeq(PYTHON, project_plan.technologies) THEN {Append(Root, REQUIREMENTS_TXT)}
          ELSE {})

\* no later file entry of the plan has the target of entry i
LastFor(i) == \A j \in Entries("file") : j > i => EntryTarget(j) # EntryTarget(i)

\* C6, as the specification states it: a plan with N file entries and M directory
\* entries, materialized into a fresh root, leaves exactly N regular files under the
\* root, each with the content of its entry, and at least M directories, the parent
\* directories of the files among them.
C6_ExactlyTheEntries ==
  MaterializeDone =>
    /\ Cardinality(FilesInRoot) = Cardinality(Entries("file"))
    /\ \A i \in Entries("file") :
         /\ EntryTarget(i) \in DOMAIN files
         /\ files[EntryTarget(i)] = project_plan.structure[i].content
         /\ Parent(EntryTarget(i)) \in dirs
    /\ Cardinality(DirsInRoot) >= Cardinality(Entries("directory"))

\* C6, amended: a plan materialized into a fresh root leaves under the root exactly the
\* files of its file entries that lie in the root, README.md and, for a plan with the
\* technology "python", requirements.txt; every file entry's file holds the content of
\* the last file entry with that target; every directory entry's directory and the
\* parent directory of every file entry's file exist.
C6_Materialized ==
  MaterializeDone =>
    /\ FilesInRoot =
         {EntryTarget(i) : i \in {j \in Entries("file") : InRoot(EntryTarget(j))}}
           \cup OwnFiles
    /\ \A i \in Entries("file") :
         /\ EntryTarget(i) \in DOMAIN files
         /\ LastFor(i) => files[EntryTarget(i)] = project_plan.structure[i].content
         /\ Parent(EntryTarget(i)) \in dirs
    /\ \A i \in Entries("directory") : EntryTarget(i) \in dirs

\* C6 happens: a plan with two file entries for one path, of different content, and a
\* directory entry has been materialized into a fresh root
C6_Witness ==
  /\ MaterializeDone
  /\ Entries("directory") # {}
  /\ \E i, j \in Entries("file") :
       /\ i < j
       /\ EntryTarget(i) = EntryTarget(j)
       /\ project_plan.structure[i].content # project_plan.structure[j].content

\* C7: when the project root exists and the overwrite question is declined,
\* _create_project writes nothing, no README, manifest, entry or directory, no
\* version-control step follows, and the build reports failure and ends.
C7_DeclinedWritesNothing ==
  [][pc = "cli_build" /\ existed' /\ Lower(confirm') # <<"y">> =>
       /\ dirs' = dirs
       /\ files' = files
       /\ commits' = commits
       /\ build_result' = "false"
       /\ printed' = "aborted"
       /\ pc' = "exited"]_vars

\* C7 happens: a build of a plan with entries into the existing project was declined
C7_Witness ==
  /\ existed
  /\ confirm = <<"n">>
  /\ project_plan.structure # <<>>
  /\ build_result = "false"

\* no later written edit of the batch has the target of edit k
LastWrite(k) ==
  \A j \in (k + 1)..Len(edits) :
    edits[j].err = "ok" => Target(edits[j].path) # Target(edits[k].path)

\* C8: the edits of a batch are applied one after the other in the order of the text,
\* so after the batch every file written holds the content of the last edit written
\* to it; a reply of one well-formed directive with content C for path P leaves P
\* reading C, the empty text included.
C8_LastWriteWins ==
  BatchDone =>
    /\ \A k \in 1..(Len(edits) - 1) : edits[k].start < edits[k + 1].start
    /\ \A k \in 1..Len(edits) :
         edits[k].err = "ok" /\ LastWrite(k) =>
           /\ Target(edits[k].path) \in DOMAIN files
           /\ files[Target(edits[k].path)] = edits[k].content
    /\ WellFormed(response) /\ Cardinality(Markers(response)) = 1 /\ edits[1].err = "ok" =>
         files[Target(Directives(response)[1].path)] = Directives(response)[1].content

\* C8 happens: two edits of one batch wrote different contents to one file
C8_Witness ==
  /\ BatchDone
  /\ \E j, k \in 1..Len(edits) :
       /\ j < k
       /\ edits[j].err = "ok"
       /\ edits[k].err = "ok"
       /\ edits[j].path = edits[k].path
       /\ edits[j].content # edits[k].content

\* the first index of name in technologies, 0 when it is not there
IndexOf(name, technologies) ==
  Lowest({i \in 1..Len(technologies) : technologies[i] = name} \cup {Len(technologies) + 1})

\* C9: after a successful _load_project_info no name occurs twice in the technologies,
\* whatever the two manifests hold, and the names stand in insertion order: the marks
\* of Node before "python".
C9_OrderedSet ==
  pc = "chat" =>
    /\ \A i, j \in 1..Len(current_project_technologies) :
         current_project_technologies[i] = current_project_technologies[j] => i = j
    /\ Append(current_project_path, PACKAGE_JSON) \in DOMAIN files =>
         /\ IndexOf(JAVASCRIPT, current_project_technologies) = 1
         /\ IndexOf(NODE, current_project_technologies) = 2
         /\ Append(current_project_path, REQUIREMENTS_TXT) \in DOMAIN files =>
              IndexOf(PYTHON, current_project_technologies) > 2

\* C10: README.md and requirements.txt are written before the first entry of the plan
\* is processed, so a file entry with the path of one of them decides its final
\* content.
C10_EntriesTakePrecedence ==
  /\ pc = "create" /\ item_idx = 1 => OwnFiles \subseteq DOMAIN files
  /\ pc = "create" /\ item_idx > Len(project_plan.structure) =>
       \A i \in Entries("file") :
         EntryTarget(i) \in OwnFiles /\ LastFor(i) =>
           files[EntryTarget(i)] = project_plan.structure[i].content

\* C10 happens: the plan had an entry for README.md and one for requirements.txt, and
\* _create_project wrote both files by itself before
C10_Witness ==
  /\ pc = "create"
  /\ item_idx > Len(project_plan.structure)
  /\ InSeq(PYTHON, project_plan.technologies)
  /\ \E i, j \in Entries("file") :
       /\ EntryTarget(i) = Append(Root, README_MD)
       /\ EntryTarget(j) = Append(Root, REQUIREMENTS_TXT)
       /\ files[EntryTarget(i)] # ReadmeText(project_plan)

\* C11: after a turn the scanner goes on strictly after the end marker it consumed: the
\* marker of the next instruction is never matched inside the span consumed before,
\* the text of its "END_FILE_EDIT" included, so the spans of the instructions, each
\* from the first character of its marker through the last of its end marker, are
\* pairwise disjoint.
C11_ScanAfterMarker ==
  \A k \in 1..(Len(edits) - 1) :
    edits[k + 1].start >= edits[k].end + Len(END_FILE_EDIT)

\* a directive of the chat session, as the specification lists them
SessionDirective(line) ==
  \/ Lower(line) \in {CMD_EXIT, <<"@", "q", "u", "i", "t">>, <<"@", "b", "y", "e">>,
                      CMD_FILES, CMD_HELP}
  \/ StartsWith(Lower(line), CMD_READ)

\* this step reads a line at the prompt of chat_mode
ChatLineRead == pc = "chat" /\ inputs' = inputs + 1

Squeeze(s) == SelectSeq(s, LAMBDA c : c \notin {" ", "\n"})

\* line is a fence-marker line
FenceLine(line) == StartsWith(Strip(line), FENCE)

\* the k-th of lines lies inside a fence: an odd number of fence markers precede it
InsideFence(lines, k) == Cardinality({j \in 1..(k - 1) : FenceLine(lines[j])}) % 2 = 1

\* line is found in the lines out as it is
Verbatim(out, line) == \E j \in 1..Len(out) : out[j] = line

\* line is found in the lines out wrapped: some lines of out that follow one another,
\* none wider than Width, hold the characters of line, spaces apart
Wrapped(out, line) ==
  \E j \in 1..Len(out) : \E m \in j..Len(out) :
    /\ \A i \in j..m : Len(out[i]) <= Width
    /\ Squeeze(Concat(SubSeq(out, j, m))) = Squeeze(line)

\* every line of text that is not a fence marker is found in the text shown
NothingLost(text, shown) ==
  \A k \in 1..Len(Split(text, <<"\n">>)) :
    ~FenceLine(Split(text, <<"\n">>)[k]) =>
      IF InsideFence(Split(text, <<"\n">>), k)
        THEN Verbatim(Split(shown, <<"\n">>), Split(text, <<"\n">>)[k])
      ELSE Wrapped(Split(shown, <<"\n">>), Split(text, <<"\n">>)[k])

\* C13: laying a reply out for the terminal never loses content: every line of the
\* text that is not a fence-marker line appears in the text shown, verbatim if it is
\* inside a fence, word-wrapped to the width of 80 if it is outside, the lines that
\* follow an opening fence marker that is never closed included.
C13_NothingLost ==
  pc = "chat" /\ printed = "reply" => NothingLost(edited_response, formatted_response)
====
